---------------------------- MODULE Spec2Model ----------------------------
(***************************************************************************)
(* Deal QuickCheck (src/app/page.tsx): the metric computation of the Home  *)
(* component, the screening verdict of scoreDecision, and the text fields  *)
(* that feed them.                                                         *)
(*                                                                         *)
(* Numbers.  A JavaScript number is modelled as a record                   *)
(*   [k |-> "fin", n |-> numerator, d |-> denominator]   (a reduced        *)
(*   fraction, d > 0), or NaN, or PosInf, or NegInf.                       *)
(* Finite arithmetic is exact rational arithmetic: the rounding of IEEE    *)
(* doubles (about 1e-16 relative) is not modelled.  The one irrational     *)
(* quantity, the annuity payment, is computed in fixed point and carried   *)
(* at a resolution of one cent.  Comparisons follow JavaScript: every      *)
(* ordering comparison that involves NaN is false.                         *)
(*                                                                         *)
(* Text.  A field value is a sequence of one-character strings; toNum,     *)
(* toFixed2 and money2 are computed character by character.                *)
(***************************************************************************)
EXTENDS Integers, Sequences, FiniteSets, TLC

-----------------------------------------------------------------------------
(* Numbers *)

\* F(e), with e evaluated once, and the same for two arguments.
Let(e, F(_)) == CHOOSE r \in {F(x) : x \in {e}} : TRUE
Let2(e1, e2, F(_, _)) == CHOOSE r \in {F(x, y) : x \in {e1}, y \in {e2}} : TRUE
Let3(e1, e2, e3, F(_, _, _)) ==
  CHOOSE r \in {F(x, y, z) : x \in {e1}, y \in {e2}, z \in {e3}} : TRUE

Abs(i) == IF i < 0 THEN -i ELSE i

RECURSIVE GCD(_, _)
GCD(a, b) == IF b = 0 THEN a ELSE Let(a % b, LAMBDA m : GCD(b, m))

\* The fraction n/d (d # 0) in lowest terms with a positive denominator.
Reduced(n, d) ==
  Let(GCD(Abs(n), Abs(d)),
      LAMBDA g : [k |-> "fin",
                  n |-> (IF d < 0 THEN -1 ELSE 1) * (n \div g),
                  d |-> (IF d < 0 THEN -1 ELSE 1) * (d \div g)])

Q(n, d) == Let2(n, d, Reduced)

I(n) == [k |-> "fin", n |-> n, d |-> 1]

NaN == [k |-> "nan", n |-> 0, d |-> 1]
PosInf == [k |-> "inf", n |-> 1, d |-> 1]
NegInf == [k |-> "inf", n |-> -1, d |-> 1]

\* Number.isFinite
IsFinite(x) == x.k = "fin"

Neg(x) == Let(x, LAMBDA a : [a EXCEPT !.n = -a.n])

\* x + y, x - y, x * y, x / y on finite numbers (y # 0 for Div); the
\* factors are cross-reduced before multiplying.
Sum(x, y) ==
  Let(GCD(x.d, y.d),
      LAMBDA g : Q(x.n * (y.d \div g) + y.n * (x.d \div g), x.d * (y.d \div g)))

Product(x, y) ==
  Let2(GCD(Abs(x.n), y.d), GCD(Abs(y.n), x.d),
       LAMBDA g1, g2 : Q((x.n \div g1) * (y.n \div g2), (x.d \div g2) * (y.d \div g1)))

Add(x, y) == Let2(x, y, Sum)
Sub(x, y) == Let2(x, Neg(y), Sum)
Mul(x, y) == Let2(x, y, Product)
Div(x, y) == Let2(x, Let(y, LAMBDA b : Q(b.d, b.n)), Product)

\* The order of the extended reals, used by the comparisons below.
Sign(x) == Let(x, LAMBDA a : IF a.n > 0 THEN 1 ELSE IF a.n < 0 THEN -1 ELSE 0)

Below(x, y) ==
  CASE x.k = "inf" /\ y.k = "inf" -> x.n < y.n
    [] x.k = "inf" -> x.n < 0
    [] y.k = "inf" -> y.n > 0
    [] OTHER -> Sign(Sub(x, y)) < 0

LtReal(x, y) == Let2(x, y, Below)

\* JavaScript's <, >, <=, >=: false whenever an operand is NaN.
Lt(x, y) == Let2(x, y, LAMBDA a, b : a.k # "nan" /\ b.k # "nan" /\ Below(a, b))
Gt(x, y) == Lt(y, x)
Ge(x, y) == Let2(x, y, LAMBDA a, b : a.k # "nan" /\ b.k # "nan" /\ ~Below(a, b))
Le(x, y) == Ge(y, x)

\* Math.max, Math.min (NaN if an operand is NaN)
MathMax(x, y) ==
  Let2(x, y, LAMBDA a, b : IF a.k = "nan" \/ b.k = "nan" THEN NaN
                           ELSE IF Below(a, b) THEN b ELSE a)
MathMin(x, y) ==
  Let2(x, y, LAMBDA a, b : IF a.k = "nan" \/ b.k = "nan" THEN NaN
                           ELSE IF Below(b, a) THEN b ELSE a)

\* floor of a finite number, as an integer
Floor(x) ==
  Let(x, LAMBDA a : IF a.n >= 0 THEN a.n \div a.d ELSE -((-a.n + a.d - 1) \div a.d))

\* Math.round on a finite number: floor(x + 1/2)
MathRound(x) == I(Floor(Add(x, Q(1, 2))))

\* floor(a * b / c) and the remainder, for a, b >= 0 and c > 0, by binary long
\* multiplication so that no intermediate exceeds 2c + a.
RECURSIVE MulDivQR(_, _, _)
MulDivQR(a, b, c) ==
  IF b = 0 THEN <<0, 0>>
  ELSE Let2(MulDivQR(a, b \div 2, c), b % 2,
            LAMBDA h, bit : <<2 * h[1] + (2 * h[2] + a * bit) \div c,
                              (2 * h[2] + a * bit) % c>>)

QuotRem(a, b, c) ==
  CASE a >= 0 /\ b >= 0 /\ c > 0 ->
    CHOOSE r \in {MulDivQR(x, y, z) : x \in {a}, y \in {b}, z \in {c}} : TRUE

MulDiv(a, b, c) == QuotRem(a, b, c)[1]

\* a * b / c rounded to the nearest integer (halves up)
MulDivRound(a, b, c) ==
  Let2(QuotRem(a, b, c), c, LAMBDA qr, z : IF 2 * qr[2] >= z THEN qr[1] + 1 ELSE qr[1])

\* Fixed point for the annuity factor: a value v >= 0 is held as <<h, l>> with
\* v = (h + l / Limb) / Limb, 0 <= l < Limb, that is to fourteen decimal places.
Limb == 10 ^ 7

\* floor(a * b / Limb) and the remainder for 0 <= a, b < 10^9, from the halves
\* of a and b in base 10^4.
HalvesQuotRem(a1, a0, b1, b0) ==
  Let2(a1 * b0 + a0 * b1 + (a0 * b0) \div 10000, (a0 * b0) % 10000,
       LAMBDA mid, low : <<a1 * b1 * 10 + mid \div 1000, (mid % 1000) * 10000 + low>>)

LimbQuotRem(a, b) ==
  Let2(a, b, LAMBDA x, y : HalvesQuotRem(x \div 10000, x % 10000, y \div 10000, y % 10000))

FixProduct(u, v) ==
  Let2(LimbQuotRem(u[1], v[1]), LimbQuotRem(u[1], v[2])[1] + LimbQuotRem(v[1], u[2])[1],
       LAMBDA p, cross : <<p[1] + (p[2] + cross) \div Limb, (p[2] + cross) % Limb>>)

FixMul(u, v) == Let2(u, v, FixProduct)

\* Math.pow(b, n) for a fixed-point base b >= 1 and an integer n >= 0, by
\* repeated squaring.
RECURSIVE PowFix(_, _)
PowFix(b, n) ==
  IF n = 0 THEN <<Limb, 0>>
  ELSE Let(PowFix(b, n \div 2),
           LAMBDA h : IF n % 2 = 1 THEN FixMul(FixMul(h, h), b) ELSE FixMul(h, h))

\* A rational x >= 0 as a fixed-point pair (truncated).
ToFix(x) ==
  Let2(x, QuotRem(x.n, Limb, x.d), LAMBDA a, hq : <<hq[1], MulDiv(hq[2], Limb, a.d)>>)

\* pw / (pw - 1) for a fixed-point pw > 1, as an integer count of 1 / Limb:
\* the quotient by the high limb of pw - 1, corrected to first order for its
\* low limb.
RatioByHigh(pw, hd) ==
  Let(MulDiv(pw[1], Limb, hd) + pw[2] \div hd,
      LAMBDA x0 : x0 - MulDiv(MulDiv(x0, 1000, hd), pw[2], Limb) \div 1000)

AnnuityRatio(pw) == Let(pw, LAMBDA w : RatioByHigh(w, w[1] - Limb))

-----------------------------------------------------------------------------
(* Text *)

Digits == {"0", "1", "2", "3", "4", "5", "6", "7", "8", "9"}

DigitVal(c) ==
  CASE c = "0" -> 0 [] c = "1" -> 1 [] c = "2" -> 2 [] c = "3" -> 3 [] c = "4" -> 4
    [] c = "5" -> 5 [] c = "6" -> 6 [] c = "7" -> 7 [] c = "8" -> 8 [] c = "9" -> 9

DigitChar(i) ==
  CASE i = 0 -> "0" [] i = 1 -> "1" [] i = 2 -> "2" [] i = 3 -> "3" [] i = 4 -> "4"
    [] i = 5 -> "5" [] i = 6 -> "6" [] i = 7 -> "7" [] i = 8 -> "8" [] i = 9 -> "9"

\* The value of a sequence of decimal digits (0 for the empty sequence).
RECURSIVE DigitsValue(_)
DigitsValue(s) ==
  IF s = <<>> THEN 0
  ELSE Let(SubSeq(s, 1, Len(s) - 1), LAMBDA t : 10 * DigitsValue(t) + DigitVal(s[Len(s)]))

\* The decimal digits of a natural number, without leading zeros.
RECURSIVE NatDigits(_)
NatDigits(i) ==
  IF i < 10 THEN <<DigitChar(i)>>
  ELSE Let(i \div 10, LAMBDA t : NatDigits(t) \o <<DigitChar(i % 10)>>)

Pow10(e) == 10 ^ e

\* Number(s) for a string s over the characters 0-9 . - : the empty string is
\* 0; an optional minus sign followed by digits with at most one point and
\* at least one digit is that decimal number; anything else is NaN.
NumberOf(s) ==
  LET neg == s # <<>> /\ s[1] = "-"
      body == IF neg THEN SubSeq(s, 2, Len(s)) ELSE s
      points == {i \in 1..Len(body) : body[i] = "."}
      wellFormed ==
        /\ \A i \in 1..Len(body) : body[i] \in Digits \/ body[i] = "."
        /\ Cardinality(points) <= 1
        /\ \E i \in 1..Len(body) : body[i] \in Digits
      pt == IF points = {} THEN Len(body) + 1 ELSE CHOOSE i \in points : TRUE
      whole == SubSeq(body, 1, pt - 1)
      frac == SubSeq(body, pt + 1, Len(body))
      mag == Q(DigitsValue(whole \o frac), Pow10(Len(frac)))
  IN IF s = <<>> THEN I(0)
     ELSE IF ~wellFormed THEN NaN
     ELSE IF neg THEN Neg(mag) ELSE mag

Number(s) == Let(s, NumberOf)

\* The characters that /[^0-9.\-]/g leaves in place.
NumericChars == Digits \cup {".", "-"}

IsNumericChar(c) == c \in NumericChars

toNum(v) ==
  Let(Number(SelectSeq(v, IsNumericChar)), LAMBDA n : IF IsFinite(n) THEN n ELSE I(0))

\* clamp without the upper limit.
clampBelowOnly(n, min, max) == MathMax(min, n)

clamp(n, min, max) == MathMin(max, MathMax(min, n))

\* |x| * 100 rounded to an integer, halves away from zero.
RoundedCents(x) == Let(x, LAMBDA a : MulDivRound(Abs(a.n), 100, a.d))

\* The digits of a count of cents as units, point, two decimals.
CentsText(c) ==
  Let(c, LAMBDA n : NatDigits(n \div 100) \o <<".", DigitChar((n % 100) \div 10), DigitChar(n % 10)>>)

\* Number.prototype.toFixed(2)
Fixed2(x) ==
  CASE x.k = "nan" -> <<"N", "a", "N">>
    [] x.k = "inf" ->
         (IF x.n < 0 THEN <<"-">> ELSE <<>>) \o <<"I", "n", "f", "i", "n", "i", "t", "y">>
    [] OTHER -> (IF x.n < 0 THEN <<"-">> ELSE <<>>) \o CentsText(RoundedCents(x))

toFixed2(x) == Let(x, Fixed2)

\* The neutral marker shown for a value that is not finite (an em dash).
Dash == <<"--">>

\* Digits in groups of three separated by commas.
RECURSIVE Grouped(_)
Grouped(ds) ==
  IF Len(ds) <= 3 THEN ds
  ELSE Let(SubSeq(ds, 1, Len(ds) - 3),
           LAMBDA t : Grouped(t) \o <<",">> \o SubSeq(ds, Len(ds) - 2, Len(ds)))

\* money2: US-dollar currency text with two decimals (en-US conventions).
DollarText(x) ==
  Let2(RoundedCents(x), NatDigits(RoundedCents(x) \div 100),
       LAMBDA c, ds : (IF x.n < 0 THEN <<"-">> ELSE <<>>) \o <<"$">> \o Grouped(ds)
                        \o <<".", DigitChar((c % 100) \div 10), DigitChar(c % 10)>>)

money2(x) == Let(x, LAMBDA a : IF ~IsFinite(a) THEN Dash ELSE DollarText(a))

\* pct: a fraction as a percentage with two decimals.
pct(x) ==
  Let(x, LAMBDA a : IF ~IsFinite(a) THEN Dash ELSE toFixed2(Mul(a, I(100))) \o <<"%">>)

-----------------------------------------------------------------------------
(* monthlyMortgagePayment *)

\* principal * (r * pow(1 + r, n)) / (pow(1 + r, n) - 1) for principal > 0 and
\* r > 0, to the nearest cent.
AnnuityPayment(principal, r, n) ==
  Let2(AnnuityRatio(PowFix(ToFix(Add(I(1), r)), n)), Mul(principal, r),
       LAMBDA ratio, pr : Q(MulDivRound(ratio, pr.n * 100, pr.d * Limb), 100))

\* The number of monthly periods with the months truncated instead of rounded.
PeriodsTruncated(years) == MathMax(I(1), I(Floor(Mul(years, I(12)))))

\* The number of monthly periods.
Periods(years) == MathMax(I(1), MathRound(Mul(years, I(12))))

Payment(principal, r, n) ==
  IF Le(principal, I(0)) THEN I(0)
  ELSE IF Le(r, I(0)) THEN Div(principal, n)
  ELSE AnnuityPayment(principal, r, n.n)

monthlyMortgagePayment(principal, annualRatePct, years) ==
  Let3(principal, Div(Div(annualRatePct, I(100)), I(12)), Periods(years), Payment)

-----------------------------------------------------------------------------
(* scoreDecision *)

\* The DSCR guardrail set below 1.
dscrMinBelowOne == Q(4, 5)

dscrMin == Q(6, 5)
cocMin == Q(2, 25)

CashFlowReason(args) ==
  [about |-> "Cash flow is negative", shown |-> money2(args.netCashFlow)]
DscrReason(args) ==
  [about |-> "DSCR is below 1.20", shown |-> toFixed2(args.dscr)]
CashOnCashWarning(args) ==
  [about |-> "Cash-on-cash is under 8%", shown |-> pct(args.cashOnCash)]
BreakEvenWarning ==
  [about |-> "Break-even rent is above your gross rent input", shown |-> <<>>]

\* reasons with the DSCR reason pushed first.
reasonsDscrFirst(args) ==
  (IF Lt(args.dscr, dscrMin) THEN <<DscrReason(args)>> ELSE <<>>)
    \o (IF Lt(args.netCashFlow, I(0)) THEN <<CashFlowReason(args)>> ELSE <<>>)

reasons(args) ==
  (IF Lt(args.netCashFlow, I(0)) THEN <<CashFlowReason(args)>> ELSE <<>>)
    \o (IF Lt(args.dscr, dscrMin) THEN <<DscrReason(args)>> ELSE <<>>)

\* warnings with the break-even rent compared with the income after vacancy.
warningsAfterVacancy(args) ==
  (IF Lt(args.cashOnCash, cocMin) THEN <<CashOnCashWarning(args)>> ELSE <<>>)
    \o (IF Gt(args.breakEvenRent, args.effectiveIncome) THEN <<BreakEvenWarning>> ELSE <<>>)

warnings(args) ==
  (IF Lt(args.cashOnCash, cocMin) THEN <<CashOnCashWarning(args)>> ELSE <<>>)
    \o (IF Gt(args.breakEvenRent, args.grossIncome) THEN <<BreakEvenWarning>> ELSE <<>>)

\* isGo with the cash-flow threshold made strict.
isGoStrict(args) == Gt(args.netCashFlow, I(0)) /\ Ge(args.dscr, dscrMin)

isGo(args) == Ge(args.netCashFlow, I(0)) /\ Ge(args.dscr, dscrMin)

primarySignals(args) ==
  << [k |-> "Cash flow (monthly)", v |-> money2(args.netCashFlow)],
     [k |-> "DSCR", v |-> IF IsFinite(args.dscr) THEN toFixed2(args.dscr) ELSE Dash] >>

nextStep(args) ==
  IF isGo(args)
  THEN "Next: verify rent comps + taxes/insurance + vacancy; then do full underwriting."
  ELSE "Next: adjust price/down payment/rent/expenses until cash flow and DSCR clear the threshold."

scoreDecision(args) ==
  Let(args, LAMBDA a :
    [isGo |-> isGo(a), reasons |-> reasons(a), warnings |-> warnings(a),
     primarySignals |-> primarySignals(a), nextStep |-> nextStep(a),
     dscrMin |-> dscrMin, cocMin |-> cocMin])

-----------------------------------------------------------------------------
(* Home: the input fields and the two memoised computations *)

FieldNames ==
  {"purchasePrice", "downPct", "ratePct", "termYears", "closingCosts",
   "monthlyRent", "tenantPortionMonthly", "hapMonthly", "otherIncome",
   "taxesMonthly", "insuranceMonthly", "hoaMonthly", "utilitiesMonthly",
   "vacancyPct", "repairsPct", "capexPct", "mgmtPct", "inspectionReserveMonthly"}

\* The useState initial values, which are also what "Reset example" restores.
DefaultFields ==
  [purchasePrice |-> <<"5", "0", "0", "0", "0", "0">>,
   downPct |-> <<"2", "5">>,
   ratePct |-> <<"6", ".", "7", "5">>,
   termYears |-> <<"3", "0">>,
   closingCosts |-> <<"0">>,
   monthlyRent |-> <<"4", "0", "0", "0">>,
   tenantPortionMonthly |-> <<"8", "0", "0">>,
   hapMonthly |-> <<"3", "2", "0", "0">>,
   otherIncome |-> <<"0">>,
   taxesMonthly |-> <<"5", "2", "0">>,
   insuranceMonthly |-> <<"1", "4", "0">>,
   hoaMonthly |-> <<"0">>,
   utilitiesMonthly |-> <<"0">>,
   vacancyPct |-> <<"5">>,
   repairsPct |-> <<"5">>,
   capexPct |-> <<"5">>,
   mgmtPct |-> <<"8">>,
   inspectionReserveMonthly |-> <<"0">>]

\* computedRent: the rent used in calculations
computeRent(f, s8) ==
  IF ~s8 THEN MathMax(I(0), toNum(f.monthlyRent))
  ELSE Add(MathMax(I(0), toNum(f.tenantPortionMonthly)), MathMax(I(0), toNum(f.hapMonthly)))

\* s8Reserve taken in either mode.
s8ReserveAnyMode(f, s8) == MathMax(I(0), toNum(f.inspectionReserveMonthly))

s8Reserve(f, s8) ==
  IF s8 THEN MathMax(I(0), toNum(f.inspectionReserveMonthly)) ELSE I(0)

\* The coerced and clamped inputs of the result computation.
Inputs(f, s8, cr) ==
  [price |-> MathMax(I(0), toNum(f.purchasePrice)),
   down |-> Div(clamp(toNum(f.downPct), I(0), I(100)), I(100)),
   rate |-> clamp(toNum(f.ratePct), I(0), I(100)),
   years |-> MathMax(I(1), MathRound(toNum(f.termYears))),
   close |-> MathMax(I(0), toNum(f.closingCosts)),
   rent |-> MathMax(I(0), cr),
   other |-> MathMax(I(0), toNum(f.otherIncome)),
   taxes |-> MathMax(I(0), toNum(f.taxesMonthly)),
   ins |-> MathMax(I(0), toNum(f.insuranceMonthly)),
   hoa |-> MathMax(I(0), toNum(f.hoaMonthly)),
   utils |-> MathMax(I(0), toNum(f.utilitiesMonthly)),
   vacancy |-> Div(clamp(toNum(f.vacancyPct), I(0), I(80)), I(100)),
   repairs |-> Div(clamp(toNum(f.repairsPct), I(0), I(80)), I(100)),
   capex |-> Div(clamp(toNum(f.capexPct), I(0), I(80)), I(100)),
   mgmt |-> Div(clamp(toNum(f.mgmtPct), I(0), I(30)), I(100)),
   s8Reserve |-> s8Reserve(f, s8)]

downPayment(v) == Mul(v.price, v.down)
loan(v) == MathMax(I(0), Sub(v.price, downPayment(v)))
mortgagePI(v) == monthlyMortgagePayment(loan(v), v.rate, v.years)

grossIncome(v) == Add(v.rent, v.other)
effectiveRent(v) == Mul(v.rent, Sub(I(1), v.vacancy))
effectiveIncome(v) == Add(effectiveRent(v), v.other)

\* percentCosts taken on the rent left after vacancy.
percentCostsAfterVacancy(v) ==
  Mul(effectiveRent(v), Add(Add(v.repairs, v.capex), v.mgmt))

percentCosts(v) == Mul(v.rent, Add(Add(v.repairs, v.capex), v.mgmt))
fixedCostsNoDebt(v) == Add(Add(Add(Add(v.taxes, v.ins), v.hoa), v.utils), v.s8Reserve)

noiMonthly(v) == Sub(effectiveIncome(v), Add(fixedCostsNoDebt(v), percentCosts(v)))
netCashFlow(noi, pi) == Sub(noi, pi)
totalExpenses(v, pi) == Add(Add(fixedCostsNoDebt(v), percentCosts(v)), pi)

capRate(v, noi) == IF Gt(v.price, I(0)) THEN Div(Mul(noi, I(12)), v.price) ELSE NaN
cashInvested(v) == Add(downPayment(v), v.close)
\* cashOnCash reported as 0 when nothing is invested.
cashOnCashZeroDefault(v, ncf) ==
  IF Gt(cashInvested(v), I(0)) THEN Div(Mul(ncf, I(12)), cashInvested(v)) ELSE I(0)

cashOnCash(v, ncf) ==
  IF Gt(cashInvested(v), I(0)) THEN Div(Mul(ncf, I(12)), cashInvested(v)) ELSE NaN

\* dscr with a zero NOI counted as covering a zero payment.
dscrZeroCovered(noi, pi) ==
  IF Gt(pi, I(0)) THEN Div(noi, pi) ELSE IF Ge(noi, I(0)) THEN PosInf ELSE NaN

dscr(noi, pi) ==
  IF Gt(pi, I(0)) THEN Div(noi, pi) ELSE IF Gt(noi, I(0)) THEN PosInf ELSE NaN

coeff(v) == Sub(Sub(I(1), v.vacancy), Add(Add(v.repairs, v.capex), v.mgmt))
\* breakEvenRent with the other income left out of the numerator.
breakEvenRentNoOther(v, pi) ==
  IF coeff(v) # I(0) THEN Div(Add(fixedCostsNoDebt(v), pi), coeff(v)) ELSE PosInf

breakEvenRent(v, pi) ==
  IF coeff(v) # I(0) THEN Div(Sub(Add(fixedCostsNoDebt(v), pi), v.other), coeff(v)) ELSE PosInf

\* The arguments the result memo passes to scoreDecision.
DecisionArgs(v, pi, noi) ==
  [netCashFlow |-> netCashFlow(noi, pi),
   dscr |-> dscr(noi, pi),
   cashOnCash |-> cashOnCash(v, netCashFlow(noi, pi)),
   breakEvenRent |-> breakEvenRent(v, pi),
   effectiveIncome |-> effectiveIncome(v),
   grossIncome |-> grossIncome(v),
   mortgagePI |-> pi]

\* The object the result memo returns.
ResultOf(v, pi, noi) ==
  [price |-> v.price,
   loan |-> loan(v),
   downPayment |-> downPayment(v),
   cashInvested |-> cashInvested(v),
   mortgagePI |-> pi,
   grossIncome |-> grossIncome(v),
   effectiveIncome |-> effectiveIncome(v),
   fixedCostsNoDebt |-> fixedCostsNoDebt(v),
   percentCosts |-> percentCosts(v),
   totalExpenses |-> totalExpenses(v, pi),
   noiMonthly |-> noi,
   netCashFlow |-> netCashFlow(noi, pi),
   capRate |-> capRate(v, noi),
   cashOnCash |-> cashOnCash(v, netCashFlow(noi, pi)),
   dscr |-> dscr(noi, pi),
   breakEvenRent |-> breakEvenRent(v, pi),
   decision |-> scoreDecision(DecisionArgs(v, pi, noi))]

\* The body of the result memo.
computeResult(f, s8, cr) ==
  Let(Inputs(f, s8, cr), LAMBDA v : Let3(v, mortgagePI(v), noiMonthly(v), ResultOf))

\* The dependency lists of the two memos.
RentDeps(f, s8) == <<s8, f.monthlyRent, f.tenantPortionMonthly, f.hapMonthly>>

\* The result dependencies without the inspection reserve.
ResultDepsNoReserve(f, s8, cr) ==
  <<f.purchasePrice, f.downPct, f.ratePct, f.termYears, f.closingCosts, cr,
    f.otherIncome, f.taxesMonthly, f.insuranceMonthly, f.hoaMonthly,
    f.utilitiesMonthly, f.vacancyPct, f.repairsPct, f.capexPct, f.mgmtPct, s8>>

ResultDeps(f, s8, cr) ==
  <<f.purchasePrice, f.downPct, f.ratePct, f.termYears, f.closingCosts, cr,
    f.otherIncome, f.taxesMonthly, f.insuranceMonthly, f.hoaMonthly,
    f.utilitiesMonthly, f.vacancyPct, f.repairsPct, f.capexPct, f.mgmtPct, s8,
    f.inspectionReserveMonthly>>

-----------------------------------------------------------------------------
(* State *)

VARIABLES
  section8Mode,   \* Home: the mode flag
  fields,         \* Home: the eighteen text fields, by state-variable name
  computedRent,   \* Home: the computedRent memo
  result,         \* Home: the result memo
  pc,             \* where the program is: mounting, ready, or in a direct call
  edits,          \* the number of user actions since the page was mounted
  scoreArgs,      \* the argument of a direct call of scoreDecision
  decision,       \* what that call returned
  payArgs,        \* the arguments of a direct call of monthlyMortgagePayment
  payment,        \* what that call returned
  href,           \* the query string of window.location.href, as characters
  shared,         \* the link last copied, with the page state it was built from
  lines,          \* exportPdf: the lines to write
  cursor,         \* exportPdf: the number of the line the loop is at
  pdfY,           \* exportPdf: y, the vertical offset of the next line
  doc             \* exportPdf: the document, its page count and the texts written

vars == <<section8Mode, fields, computedRent, result, pc, edits,
          scoreArgs, decision, payArgs, payment, href, shared,
          lines, cursor, pdfY, doc>>

homeVars == <<section8Mode, fields, computedRent, result, edits>>
callVars == <<scoreArgs, decision, payArgs, payment>>
linkVars == <<href, shared>>
pdfVars == <<lines, cursor, pdfY, doc>>

\* The number of user actions followed after the page is mounted.
MaxEdits == 1

\* The render that follows a state update: each memo is recomputed when one of
\* its dependencies changed.
Render(nextFields, s8) ==
  \E f \in {nextFields} :
    /\ fields' = f
    /\ section8Mode' = s8
    /\ computedRent' =
         IF RentDeps(f, s8) # RentDeps(fields, section8Mode)
         THEN computeRent(f, s8) ELSE computedRent
    /\ result' =
         IF ResultDeps(f, s8, computedRent') # ResultDeps(fields, section8Mode, computedRent)
         THEN computeResult(f, s8, computedRent') ELSE result

-----------------------------------------------------------------------------
(* The query string a page can be opened with *)

\* The search-parameter key of each field.
Key(name) ==
  CASE name = "purchasePrice" -> "p" [] name = "downPct" -> "dp"
    [] name = "ratePct" -> "r" [] name = "termYears" -> "t"
    [] name = "closingCosts" -> "cc" [] name = "monthlyRent" -> "rent"
    [] name = "tenantPortionMonthly" -> "tenant" [] name = "hapMonthly" -> "hap"
    [] name = "otherIncome" -> "other" [] name = "taxesMonthly" -> "tax"
    [] name = "insuranceMonthly" -> "ins" [] name = "hoaMonthly" -> "hoa"
    [] name = "utilitiesMonthly" -> "util" [] name = "vacancyPct" -> "vac"
    [] name = "repairsPct" -> "rep" [] name = "capexPct" -> "capex"
    [] name = "mgmtPct" -> "mgmt" [] name = "inspectionReserveMonthly" -> "s8res"

ModeS8 == <<"s", "8">>
ModeStd == <<"s", "t", "d">>

\* Query strings (functions from keys to values) the model opens the page with.
QueryParams ==
  { <<>>,
    [m |-> ModeS8],
    [m |-> ModeStd, rent |-> <<"$", "6", ",", "0", "0", "0">>],
    \* nothing bought, nothing earned, nothing owed
    [p |-> <<"0">>, rent |-> <<"0">>, tax |-> <<"0">>, ins |-> <<>>],
    \* no purchase price, other income above the fixed costs
    [p |-> <<"0">>, other |-> <<"9", "0", "0">>],
    \* a rent below the break-even rent, made up by other income
    [rent |-> <<"2", "5", "0", "0">>, other |-> <<"9", "0", "0">>],
    \* out-of-range and unparseable text
    [dp |-> <<"1", "5", "0">>, vac |-> <<"-", "1", "0">>, rep |-> <<"9", "5">>,
     mgmt |-> <<"4", "5">>, t |-> <<"0", ".", "4">>, r |-> <<"a", "b", "c">>,
     cc |-> <<"1", "-", "2">>, hoa |-> <<"-", "5", "0">>],
    \* cost fractions that use up the whole rent
    [vac |-> <<"2", "0">>, rep |-> <<"8", "0">>, capex |-> <<"0">>, mgmt |-> <<"0">>],
    \* cost fractions above the whole rent
    [vac |-> <<"8", "0">>, rep |-> <<"8", "0">>],
    \* an interest-free two-year loan in subsidised mode with a reserve
    [m |-> ModeS8, r |-> <<"0">>, t |-> <<"1", ".", "5">>,
     tenant |-> <<"1", "0", "0", "0">>, hap |-> <<"5", "2", "0", "0">>,
     s8res |-> <<"1", "0", "0">>, dp |-> <<"0">>] }

-----------------------------------------------------------------------------
(* URL search parameters: a list of <<name, value>> pairs of characters *)

Letters ==
  {"a", "b", "c", "d", "e", "f", "g", "h", "i", "j", "k", "l", "m", "n", "o", "p",
   "q", "r", "s", "t", "u", "v", "w", "x", "y", "z"}

\* The characters the serialiser writes as they are.
Unreserved == Digits \cup Letters \cup {"-", ".", "_", "*"}

\* application/x-www-form-urlencoded: how the serialiser writes a character
\* (for the characters of this model).
EscapeOf(c) ==
  CASE c \in Unreserved -> <<c>>
    [] c = " " -> <<"+">>
    [] c = "$" -> <<"%", "2", "4">>
    [] c = "%" -> <<"%", "2", "5">>
    [] c = "&" -> <<"%", "2", "6">>
    [] c = "+" -> <<"%", "2", "B">>
    [] c = "," -> <<"%", "2", "C">>
    [] c = "=" -> <<"%", "3", "D">>

RECURSIVE encode(_)
encode(s) ==
  IF s = <<>> THEN <<>> ELSE Let(Tail(s), LAMBDA t : EscapeOf(s[1]) \o encode(t))

\* The character a percent escape stands for (for the characters of this model).
EscapeCodes ==
  { <<"2", "4">>, <<"2", "5">>, <<"2", "6">>, <<"2", "B">>, <<"2", "b">>,
    <<"2", "C">>, <<"2", "c">>, <<"3", "D">>, <<"3", "d">>, <<"2", "0">> }

Unescaped(h) ==
  CASE h = <<"2", "4">> -> "$"
    [] h = <<"2", "5">> -> "%"
    [] h = <<"2", "6">> -> "&"
    [] h \in {<<"2", "B">>, <<"2", "b">>} -> "+"
    [] h \in {<<"2", "C">>, <<"2", "c">>} -> ","
    [] h \in {<<"3", "D">>, <<"3", "d">>} -> "="
    [] h = <<"2", "0">> -> " "

\* The parser's decoding: "+" is a space, a percent escape is its character,
\* anything else is itself.
RECURSIVE decode(_)
decode(s) ==
  IF s = <<>> THEN <<>>
  ELSE IF s[1] = "%" /\ Len(s) >= 3 /\ SubSeq(s, 2, 3) \in EscapeCodes
       THEN Let(SubSeq(s, 4, Len(s)), LAMBDA t : <<Unescaped(SubSeq(s, 2, 3))>> \o decode(t))
       ELSE Let(Tail(s), LAMBDA t : <<IF s[1] = "+" THEN " " ELSE s[1]>> \o decode(t))

\* The pieces of s between the separators sep.
Positions(s, sep) == {i \in 1..Len(s) : s[i] = sep}

PiecesAt(s, seps) ==
  LET n == Cardinality(seps)
      cut(k) == IF k = 0 THEN 0
                ELSE IF k = n + 1 THEN Len(s) + 1
                ELSE CHOOSE p \in seps : Cardinality({j \in seps : j <= p}) = k
  IN [k \in 1..(n + 1) |-> SubSeq(s, cut(k - 1) + 1, cut(k) - 1)]

Pieces(s, sep) == Let2(s, Positions(s, sep), PiecesAt)

\* name=value, split at the first "="; a piece without "=" is a name with an
\* empty value.
PairAt(piece, eqs) ==
  IF eqs = {} THEN <<decode(piece), <<>>>>
  ELSE Let(CHOOSE p \in eqs : \A q \in eqs : p <= q,
           LAMBDA p : <<decode(SubSeq(piece, 1, p - 1)),
                        decode(SubSeq(piece, p + 1, Len(piece)))>>)

PairOf(piece) == Let2(piece, Positions(piece, "="), PairAt)

\* new URL(href).searchParams
searchParams(query) ==
  Let(SelectSeq(Pieces(query, "&"), LAMBDA piece : piece # <<>>),
      LAMBDA ps : [i \in 1..Len(ps) |-> PairOf(ps[i])])

HasParam(params, k) == \E i \in 1..Len(params) : params[i][1] = k

FirstParam(params, k) ==
  CHOOSE i \in 1..Len(params) :
    params[i][1] = k /\ \A j \in 1..Len(params) : params[j][1] = k => i <= j

\* The fallback taken for an empty value as well.
getNonEmpty(params, k, fallback) ==
  IF HasParam(params, k) /\ params[FirstParam(params, k)][2] # <<>>
  THEN params[FirstParam(params, k)][2] ELSE fallback

\* searchParams.get(k) ?? fallback
get(params, k, fallback) ==
  IF HasParam(params, k) THEN params[FirstParam(params, k)][2] ELSE fallback

\* searchParams.set(k, v): the first k takes the value, the other k's go; a new
\* k is appended.
setFirst(params, k, v, first) ==
  Let(SelectSeq([i \in 1..Len(params) |-> <<params[i], i>>],
                LAMBDA e : e[1][1] # k \/ e[2] = first),
      LAMBDA kept : [i \in 1..Len(kept) |->
                       IF kept[i][2] = first THEN <<k, v>> ELSE kept[i][1]])

set(params, k, v) ==
  IF HasParam(params, k) THEN setFirst(params, k, v, FirstParam(params, k))
  ELSE Append(params, <<k, v>>)

RECURSIVE setAll(_, _)
setAll(params, entries) ==
  IF entries = <<>> THEN params
  ELSE Let2(set(params, entries[1][1], entries[1][2]), Tail(entries), setAll)

\* url.toString(), the query part: name=value pairs joined by "&".
RECURSIVE serialize(_)
serialize(params) ==
  IF params = <<>> THEN <<>>
  ELSE Let2(encode(params[1][1]) \o <<"=">> \o encode(params[1][2]), Tail(params),
            LAMBDA head, rest :
              IF rest = <<>> THEN head ELSE head \o <<"&">> \o serialize(rest))

\* The characters of a search-parameter key.
KeyChars(k) ==
  CASE k = "m" -> <<"m">>
    [] k = "p" -> <<"p">> [] k = "dp" -> <<"d", "p">>
    [] k = "r" -> <<"r">> [] k = "t" -> <<"t">>
    [] k = "cc" -> <<"c", "c">> [] k = "rent" -> <<"r", "e", "n", "t">>
    [] k = "tenant" -> <<"t", "e", "n", "a", "n", "t">> [] k = "hap" -> <<"h", "a", "p">>
    [] k = "other" -> <<"o", "t", "h", "e", "r">> [] k = "tax" -> <<"t", "a", "x">>
    [] k = "ins" -> <<"i", "n", "s">> [] k = "hoa" -> <<"h", "o", "a">>
    [] k = "util" -> <<"u", "t", "i", "l">> [] k = "vac" -> <<"v", "a", "c">>
    [] k = "rep" -> <<"r", "e", "p">> [] k = "capex" -> <<"c", "a", "p", "e", "x">>
    [] k = "mgmt" -> <<"m", "g", "m", "t">> [] k = "s8res" -> <<"s", "8", "r", "e", "s">>

\* The fields in the order buildShareUrl writes them.
ShareOrder ==
  <<"purchasePrice", "downPct", "ratePct", "termYears", "closingCosts",
    "monthlyRent", "tenantPortionMonthly", "hapMonthly", "otherIncome",
    "taxesMonthly", "insuranceMonthly", "hoaMonthly", "utilitiesMonthly",
    "vacancyPct", "repairsPct", "capexPct", "mgmtPct", "inspectionReserveMonthly">>

ShareEntries(f, s8) ==
  <<<<KeyChars("m"), IF s8 THEN ModeS8 ELSE ModeStd>>>>
    \o [i \in 1..Len(ShareOrder) |-> <<KeyChars(Key(ShareOrder[i])), f[ShareOrder[i]]>>]

\* buildShareUrl without the inspection reserve.
buildShareUrlNoReserve(f, s8, query) ==
  Let(Let2(searchParams(query), SubSeq(ShareEntries(f, s8), 1, Len(ShareOrder)), setAll),
      serialize)

\* buildShareUrl, the query part of the URL it returns.
buildShareUrl(f, s8, query) ==
  Let(Let2(searchParams(query), ShareEntries(f, s8), setAll), serialize)

\* The query string that carries the parameters of q, in the order of the keys
\* of buildShareUrl.
QueryOf(q) ==
  Let(SelectSeq(<<"m">> \o [i \in 1..Len(ShareOrder) |-> Key(ShareOrder[i])],
                LAMBDA k : k \in DOMAIN q),
      LAMBDA ks : serialize([i \in 1..Len(ks) |-> <<KeyChars(ks[i]), q[ks[i]]>>]))

\* A query string typed by hand: an unknown mode token, a key given twice and a
\* parameter without a value.
TypedQuery ==
  <<"m", "=", "x", "&", "t", "=", "1", "5", "&", "t", "=", "2", "&", "r", "e", "n", "t">>

\* The query strings the model opens the page with.
Queries == {QueryOf(q) : q \in QueryParams} \cup {TypedQuery}

-----------------------------------------------------------------------------
(* What the user can type into a field *)

FieldTexts(name) ==
  CASE name = "purchasePrice" -> {<<"0">>, <<"1", "2", "0", "0", "0", "0">>}
    [] name = "downPct" -> {<<"1", "5", "0">>, <<"0">>}
    [] name = "ratePct" -> {<<"0">>, <<"1", "2", "%">>}
    [] name = "termYears" -> {<<"1">>}
    [] name = "closingCosts" -> {<<"5", ",", "0", "0", "0">>}
    [] name = "monthlyRent" -> {<<"6", "2", "0", "0">>, <<>>}
    [] name = "tenantPortionMonthly" -> {<<"1", "0", "0", "0">>}
    [] name = "hapMonthly" -> {<<"5", "2", "0", "0">>}
    [] name = "otherIncome" -> {<<"9", "0", "0">>}
    [] name = "taxesMonthly" -> {<<"0">>}
    [] name = "insuranceMonthly" -> {<<"0">>}
    [] name = "hoaMonthly" -> {<<"5", "0">>}
    [] name = "utilitiesMonthly" -> {<<"x">>}
    [] name = "vacancyPct" -> {<<"-", "1", "0">>, <<"2", "0">>}
    [] name = "repairsPct" -> {<<"8", "0">>}
    [] name = "capexPct" -> {<<"0">>}
    [] name = "mgmtPct" -> {<<"0">>, <<"4", "5">>}
    [] name = "inspectionReserveMonthly" -> {<<"1", "0", "0">>}

\* The fields the page shows in a mode: the income card lists the rent field in
\* standard mode and the tenant, HAP and reserve fields in Section 8 mode.
ShownFields(s8) ==
  IF s8 THEN FieldNames \ {"monthlyRent"}
  ELSE FieldNames \ {"tenantPortionMonthly", "hapMonthly", "inspectionReserveMonthly"}

\* The break-even rent as the user would type it, to the cent.
BreakEvenText == toFixed2(result.breakEvenRent)

Typed(name) ==
  FieldTexts(name) \cup
    (IF name = "monthlyRent" /\ IsFinite(result.breakEvenRent) THEN {BreakEvenText} ELSE {})

-----------------------------------------------------------------------------
(* Home: actions *)

NoArgs ==
  [netCashFlow |-> I(0), dscr |-> I(0), cashOnCash |-> I(0), breakEvenRent |-> I(0),
   effectiveIncome |-> I(0), grossIncome |-> I(0), mortgagePI |-> I(0)]
NoPayArgs == [principal |-> I(0), annualRatePct |-> I(0), years |-> I(0)]

NoDecision ==
  [isGo |-> FALSE, reasons |-> <<>>, warnings |-> <<>>, primarySignals |-> <<>>,
   nextStep |-> "", dscrMin |-> dscrMin, cocMin |-> cocMin]

\* exportPdf: the offset of the first line of a page, the step between lines,
\* the offset beyond which a page is full, and the left margin.
FirstLineY == 14
LineStep == 7
PageBottom == 280
LeftMargin == 12

\* new jsPDF(): one page, nothing written.
NewDoc == [pages |-> 1, texts |-> <<>>]

\* No export is under way.
NoExport ==
  /\ lines = <<>>
  /\ cursor = 1
  /\ pdfY = FirstLineY
  /\ doc = NewDoc

\* The first render, with the useState defaults.
FirstRender ==
  /\ section8Mode = FALSE
  /\ fields = DefaultFields
  /\ computedRent = computeRent(DefaultFields, FALSE)
  /\ result = computeResult(DefaultFields, FALSE, computeRent(DefaultFields, FALSE))
  /\ edits = 0

\* No link has been copied.
NoShare == [url |-> <<>>, copied |-> FALSE]

Init ==
  /\ FirstRender
  /\ NoExport
  /\ pc = "mount"
  /\ scoreArgs = NoArgs
  /\ decision = NoDecision
  /\ payArgs = NoPayArgs
  /\ payment = I(0)
  /\ href \in Queries
  /\ shared = NoShare

\* The mode the mount effect sets from the parameters qp.
loadedMode(qp, s8) ==
  Let(get(qp, KeyChars("m"), <<>>),
      LAMBDA mode : IF mode = ModeStd THEN FALSE ELSE IF mode = ModeS8 THEN TRUE ELSE s8)

\* The fields the mount effect sets from the parameters qp.
loadedFields(qp, f) == [name \in FieldNames |-> get(qp, KeyChars(Key(name)), f[name])]

\* The mount effect: load the fields from the query string.
LoadFromQuery ==
  /\ pc = "mount"
  /\ pc' = "ready"
  /\ \E qp \in {searchParams(href)} :
       IF Len(qp) = 0
       THEN UNCHANGED <<section8Mode, fields, computedRent, result>>
       ELSE Render(loadedFields(qp, fields), loadedMode(qp, section8Mode))
  /\ UNCHANGED <<edits, callVars, linkVars, pdfVars>>

\* FieldRow onChange: setValue(e.target.value)
SetField(name, text) ==
  /\ pc = "ready"
  /\ edits < MaxEdits
  /\ name \in ShownFields(section8Mode)
  /\ Render([fields EXCEPT ![name] = text], section8Mode)
  /\ edits' = edits + 1
  /\ UNCHANGED <<pc, callVars, linkVars, pdfVars>>

\* The mode toggle button
ToggleMode ==
  /\ pc = "ready"
  /\ edits < MaxEdits
  /\ Render(fields, ~section8Mode)
  /\ edits' = edits + 1
  /\ UNCHANGED <<pc, callVars, linkVars, pdfVars>>

\* The "Reset example" button
ResetExample ==
  /\ pc = "ready"
  /\ edits < MaxEdits
  /\ Render(DefaultFields, FALSE)
  /\ edits' = edits + 1
  /\ UNCHANGED <<pc, callVars, linkVars, pdfVars>>

Next ==
  \/ LoadFromQuery
  \/ \E name \in FieldNames : \E text \in Typed(name) : SetField(name, text)
  \/ ToggleMode
  \/ ResetExample

Spec == Init /\ [][Next]_vars

-----------------------------------------------------------------------------
(* scoreDecision called directly, on argument sets of every kind *)

ScoreArgSets ==
  [netCashFlow : {I(-500), Q(-1, 100), I(0), Q(1, 100), NaN},
   dscr : {I(0), Q(119, 100), Q(6, 5), Q(121, 100), NaN, PosInf, NegInf},
   cashOnCash : {Q(-1, 10), Q(7, 100), Q(2, 25), NaN},
   breakEvenRent : {I(-300), I(2000), I(2500), PosInf},
   effectiveIncome : {I(1900)},
   grossIncome : {I(2000)},
   mortgagePI : {I(0), I(1000)}]

InitScore ==
  /\ FirstRender
  /\ NoExport
  /\ href = <<>>
  /\ shared = NoShare
  /\ pc = "scoreCall"
  /\ scoreArgs \in ScoreArgSets
  /\ decision = NoDecision
  /\ payArgs = NoPayArgs
  /\ payment = I(0)

ScoreCall ==
  /\ pc = "scoreCall"
  /\ decision' = scoreDecision(scoreArgs)
  /\ pc' = "scoreReturn"
  /\ UNCHANGED <<homeVars, scoreArgs, payArgs, payment, linkVars, pdfVars>>

NextScore == ScoreCall

SpecScore == InitScore /\ [][NextScore]_vars

-----------------------------------------------------------------------------
(* monthlyMortgagePayment called directly *)

\* What the termYears field can hold, and the terms the result memo can pass.
TermTexts ==
  {<<"3", "0">>, <<"1">>, <<"1", ".", "5">>, <<"0", ".", "4">>, <<"0">>, <<>>,
   <<"-", "3">>, <<"1", "5", "y">>}

CallSiteYears == {MathMax(I(1), MathRound(toNum(t))) : t \in TermTexts}

PayArgSets ==
  [principal : {I(-1000), I(0), I(1200), I(100000), I(375000)},
   annualRatePct : {I(-1), I(0), Q(27, 4), I(12)},
   years : CallSiteYears \cup {I(-1), I(0), Q(1, 25), Q(1, 24), Q(2, 5), Q(3, 2)}]

InitPay ==
  /\ FirstRender
  /\ NoExport
  /\ href = <<>>
  /\ shared = NoShare
  /\ pc = "payCall"
  /\ payArgs \in PayArgSets
  /\ payment = I(0)
  /\ scoreArgs = NoArgs
  /\ decision = NoDecision

PayCall ==
  /\ pc = "payCall"
  /\ payment' = monthlyMortgagePayment(payArgs.principal, payArgs.annualRatePct, payArgs.years)
  /\ pc' = "payReturn"
  /\ UNCHANGED <<homeVars, scoreArgs, decision, payArgs, linkVars, pdfVars>>

NextPay == PayCall

SpecPay == InitPay /\ [][NextPay]_vars

-----------------------------------------------------------------------------
(* Sharing: a link is copied from one page and opened in a fresh one *)

\* Texts with the characters a query string treats specially.
ShareTexts ==
  { <<>>, <<"$", "6", ",", "0", "0", "0">>, <<"1", " ", "2">>,
    <<"a", "&", "b", "=", "c">>, <<"5", "0", "%">>, <<"+", "5">>,
    <<"-", "1", "0">>, <<"1", ".", "5">> }

\* Purchase prices with the same characters, of the size of a purchase.
SharePrices ==
  { <<>>, <<"$", "6", "0", "0", ",", "0", "0", "0">>, <<"4", "0", "0", " ", "0", "0", "0">>,
    <<"a", "&", "b", "=", "c">>, <<"+", "5", "0", "0", "0", "0", "0">>, <<"5", "0", "%">> }

\* Rates and terms with the same characters, of the size of a mortgage.
ShareSmallTexts ==
  { <<>>, <<"$", "1", ",", "2">>, <<"1", " ", "0">>, <<"a", "&", "b", "=", "c">>,
    <<"5", "%">>, <<"+", "5">>, <<"-", "1", "0">>, <<"1", ".", "5">> }

\* The field states links are copied from: the defaults with one field changed.
ShareStates ==
  {[DefaultFields EXCEPT ![name] = t] :
     name \in FieldNames \ {"purchasePrice", "ratePct", "termYears"}, t \in ShareTexts}
    \cup {[DefaultFields EXCEPT !.purchasePrice = t] : t \in SharePrices}
    \cup {[DefaultFields EXCEPT ![name] = t] :
            name \in {"ratePct", "termYears"}, t \in ShareSmallTexts}

InitShare ==
  /\ NoExport
  /\ section8Mode \in BOOLEAN
  /\ fields \in ShareStates
  /\ computedRent = computeRent(fields, section8Mode)
  /\ result = computeResult(fields, section8Mode, computedRent)
  /\ edits = 0
  /\ pc = "ready"
  /\ href \in {<<>>, TypedQuery}
  /\ shared = NoShare
  /\ scoreArgs = NoArgs
  /\ decision = NoDecision
  /\ payArgs = NoPayArgs
  /\ payment = I(0)

\* copyShareLink: the link is built from the page state and put on the clipboard.
CopyShareLink ==
  /\ pc = "ready"
  /\ ~shared.copied
  /\ shared' = [url |-> buildShareUrl(fields, section8Mode, href), copied |-> TRUE,
                section8Mode |-> section8Mode, fields |-> fields, result |-> result]
  /\ UNCHANGED <<homeVars, pc, callVars, href, pdfVars>>

\* The copied link is opened: a fresh page is mounted at that URL.
OpenLink ==
  /\ pc = "ready"
  /\ shared.copied
  /\ href # shared.url
  /\ href' = shared.url
  /\ pc' = "mount"
  /\ section8Mode' = FALSE
  /\ fields' = DefaultFields
  /\ computedRent' = computeRent(DefaultFields, FALSE)
  /\ result' = computeResult(DefaultFields, FALSE, computeRent(DefaultFields, FALSE))
  /\ UNCHANGED <<edits, callVars, shared, pdfVars>>

NextShare == CopyShareLink \/ OpenLink \/ LoadFromQuery

SpecShare == InitShare /\ [][NextShare]_vars

-----------------------------------------------------------------------------
(* exportPdf: the lines are assembled, then written one per loop iteration *)

\* The longest line list the write loop is followed on.
MaxLines == 80

\* A line of the export: the fixed words of its template and the values the
\* template formats.  The loop writes a line whole, whatever its text.
Line(head, shows) == [head |-> head, shows |-> shows]

\* result.decision.reasons.forEach / warnings.forEach: one "- ..." line each.
ItemLines(items) == [i \in 1..Len(items) |-> Line("- ", <<items[i]>>)]

\* The lines exportPdf pushes, in order.
exportLines(s8, res) ==
  << Line("Deal QuickCheck", <<s8>>),
     Line("Price | Loan | Cash invested", <<res.price, res.loan, res.cashInvested>>),
     Line("", <<>>),
     Line("PRIMARY SIGNALS", <<>>),
     Line("Cash flow (mo)", <<res.netCashFlow>>),
     Line("DSCR", <<res.dscr>>),
     Line("", <<>>),
     Line("KEY METRICS", <<>>),
     Line("NOI (mo)", <<res.noiMonthly>>),
     Line("Cap rate", <<res.capRate>>),
     Line("Cash-on-cash", <<res.cashOnCash>>),
     Line("Break-even rent", <<res.breakEvenRent>>),
     Line("", <<>>),
     Line("WHY", <<res.decision.isGo>>) >>
  \o (IF Len(res.decision.reasons) = 0
      THEN <<Line("No blocking issues found for screening thresholds.", <<>>)>>
      ELSE <<>>)
  \o ItemLines(res.decision.reasons)
  \o (IF Len(res.decision.warnings) # 0
      THEN <<Line("", <<>>), Line("WARNINGS", <<>>)>> \o ItemLines(res.decision.warnings)
      ELSE <<>>)
  \o <<Line("", <<>>), Line("NOTE: Fast screening tool - not full underwriting.", <<>>)>>

\* A list of n lines, each told apart by its number.
NumberedLines(n) == [k \in 1..n |-> Line("line", <<k>>)]

\* doc.text(s, x, y): s is put on the current page at (x, y).
docText(d, s, x, yy) ==
  [d EXCEPT !.texts = Append(@, [s |-> s, x |-> x, y |-> yy, page |-> d.pages])]

\* doc.addPage(): a new page becomes the current one.
addPage(d) == [d EXCEPT !.pages = @ + 1]

\* A mutation of pageFull: the page is taken as full on reaching the threshold.
pageFullAtThreshold(yy) == yy >= PageBottom

\* if (y > 280): the page is full.
pageFull(yy) == yy > PageBottom

\* The start of exportPdf: the document is created and the lines assembled.
ExportPdf ==
  /\ pc = "ready"
  /\ pc' = "pdfLoop"
  /\ doc' = NewDoc
  /\ lines' = exportLines(section8Mode, result)
  /\ cursor' = 1
  /\ pdfY' = FirstLineY
  /\ UNCHANGED <<homeVars, callVars, linkVars>>

\* One iteration of for (const s of lines).
WriteLine ==
  /\ pc = "pdfLoop"
  /\ cursor <= Len(lines)
  /\ cursor' = cursor + 1
  /\ \E written \in {docText(doc, lines[cursor], LeftMargin, pdfY)} :
       IF pageFull(pdfY + LineStep)
       THEN /\ doc' = addPage(written)
            /\ pdfY' = FirstLineY
       ELSE /\ doc' = written
            /\ pdfY' = pdfY + LineStep
  /\ UNCHANGED <<homeVars, pc, callVars, linkVars, lines>>

\* The loop is over: doc.save(...).
SavePdf ==
  /\ pc = "pdfLoop"
  /\ cursor > Len(lines)
  /\ pc' = "pdfSaved"
  /\ UNCHANGED <<homeVars, callVars, linkVars, pdfVars>>

\* The pages an export starts from: the default page and the pages opened with a
\* query string, in either mode.
ExportStates ==
  {loadedFields(searchParams(q), DefaultFields) : q \in Queries}

\* Either a page ready for its Export button, or the write loop entered on a
\* numbered line list of any length up to MaxLines.
InitPdf ==
  /\ edits = 0
  /\ href = <<>>
  /\ shared = NoShare
  /\ scoreArgs = NoArgs
  /\ decision = NoDecision
  /\ payArgs = NoPayArgs
  /\ payment = I(0)
  /\ \/ /\ section8Mode \in BOOLEAN
        /\ fields \in ExportStates
        /\ computedRent = computeRent(fields, section8Mode)
        /\ result = computeResult(fields, section8Mode, computedRent)
        /\ pc = "ready"
        /\ NoExport
     \/ /\ section8Mode = FALSE
        /\ fields = DefaultFields
        /\ computedRent = computeRent(DefaultFields, FALSE)
        /\ result = computeResult(DefaultFields, FALSE, computeRent(DefaultFields, FALSE))
        /\ pc = "pdfLoop"
        /\ lines \in {NumberedLines(n) : n \in 0..MaxLines}
        /\ cursor = 1
        /\ pdfY = FirstLineY
        /\ doc = NewDoc

NextPdf == ExportPdf \/ WriteLine \/ SavePdf

SpecPdf == InitPdf /\ [][NextPdf]_vars

-----------------------------------------------------------------------------
(* Properties *)

\* x is a number (not NaN) and x >= n / d in the extended reals, for d > 0.
AtLeast(x, n, d) ==
  \/ x.k = "inf" /\ x.n > 0
  \/ x.k = "fin" /\ x.n * d >= n * x.d

\* x is a number (not NaN) and x < n / d in the extended reals, for d > 0.
LessThan(x, n, d) ==
  \/ x.k = "inf" /\ x.n < 0
  \/ x.k = "fin" /\ x.n * d < n * x.d

HasReason(d, about) == \E i \in 1..Len(d.reasons) : d.reasons[i].about = about
HasWarning(d, about) == \E i \in 1..Len(d.warnings) : d.warnings[i].about = about

\* C1: for every argument set given to scoreDecision, isGo is true exactly when
\* netCashFlow >= 0 and dscr >= 1.20; netCashFlow = 0 with dscr = 1.20 gives
\* isGo = true, and dscr = +Infinity with netCashFlow >= 0 gives isGo = true.
C1_IsGoIffBothThresholds ==
  pc = "scoreReturn" =>
    /\ decision.isGo <=>
         (AtLeast(scoreArgs.netCashFlow, 0, 1) /\ AtLeast(scoreArgs.dscr, 6, 5))
    /\ (scoreArgs.netCashFlow = I(0) /\ scoreArgs.dscr = Q(6, 5)) => decision.isGo
    /\ (scoreArgs.dscr = PosInf /\ AtLeast(scoreArgs.netCashFlow, 0, 1)) => decision.isGo

C1_Witness ==
  /\ pc = "scoreReturn"
  /\ scoreArgs.netCashFlow = I(0)
  /\ scoreArgs.dscr = Q(6, 5)
  /\ decision.isGo

\* C2: the verdict and the blocking reasons agree for every evaluation: isGo is
\* true exactly when the reasons list is empty.
C2_VerdictMatchesReasons ==
  pc = "ready" => (result.decision.isGo <=> result.decision.reasons = <<>>)

\* C3: whenever dscr is NaN and netCashFlow >= 0, there is no DSCR blocking
\* reason and the verdict is GO.
C3_NaNDscrDoesNotBlock ==
  (pc = "ready" /\ result.dscr = NaN /\ AtLeast(result.netCashFlow, 0, 1)) =>
    /\ ~HasReason(result.decision, "DSCR is below 1.20")
    /\ result.decision.isGo

\* The non-negative amount a money field holds.
Amount(text) == MathMax(I(0), toNum(text))

\* The rent of the current mode, before vacancy.
ModeRent ==
  IF section8Mode
  THEN Add(Amount(fields.tenantPortionMonthly), Amount(fields.hapMonthly))
  ELSE Amount(fields.monthlyRent)

ModeReserve == IF section8Mode THEN Amount(fields.inspectionReserveMonthly) ELSE I(0)

\* NOI written out from the fields: rent * (1 - vacancy) + other income, less the
\* fixed costs, less rent * (repairs + capex + management).
NoiFromFields ==
  LET v == Inputs(fields, section8Mode, computedRent)
      fixed == Add(Add(Add(Add(Amount(fields.taxesMonthly), Amount(fields.insuranceMonthly)),
                           Amount(fields.hoaMonthly)), Amount(fields.utilitiesMonthly)),
                   ModeReserve)
  IN Sub(Sub(Add(Mul(ModeRent, Sub(I(1), v.vacancy)), Amount(fields.otherIncome)), fixed),
         Mul(ModeRent, Add(Add(v.repairs, v.capex), v.mgmt)))

\* The Standard scenario the page starts with.
DefaultScenario ==
  /\ ~section8Mode
  /\ fields.purchasePrice = <<"5", "0", "0", "0", "0", "0">>
  /\ fields.downPct = <<"2", "5">>
  /\ fields.ratePct = <<"6", ".", "7", "5">>
  /\ fields.termYears = <<"3", "0">>
  /\ fields.monthlyRent = <<"4", "0", "0", "0">>
  /\ fields.taxesMonthly = <<"5", "2", "0">>
  /\ fields.insuranceMonthly = <<"1", "4", "0">>
  /\ fields.vacancyPct = <<"5">>
  /\ fields.repairsPct = <<"5">>
  /\ fields.capexPct = <<"5">>
  /\ fields.mgmtPct = <<"8">>
  /\ \A name \in {"otherIncome", "hoaMonthly", "utilitiesMonthly"} : fields[name] = <<"0">>

\* C4: NOI = rent * (1 - vacancy) + other income - (taxes + insurance + hoa +
\* utilities + reserve) - rent * (repairs + capex + management) with the rent of
\* the mode before vacancy, and net cash flow = NOI - debt service; the default
\* Standard scenario has loan 375000, NOI 2420, a negative net cash flow and a
\* NO-GO verdict with the cash-flow reason.
C4_NoiAndDefaultScenario ==
  pc = "ready" =>
    /\ result.noiMonthly = NoiFromFields
    /\ result.netCashFlow = Sub(result.noiMonthly, result.mortgagePI)
    /\ DefaultScenario =>
         /\ result.loan = I(375000)
         /\ result.noiMonthly = I(2420)
         /\ LessThan(result.netCashFlow, 0, 1)
         /\ ~result.decision.isGo
         /\ HasReason(result.decision, "Cash flow is negative")

\* The default scenario, with its payment of 2432.24 and cash flow of -12.24.
C4_Witness ==
  /\ pc = "ready"
  /\ DefaultScenario
  /\ result.mortgagePI = Q(60806, 25)
  /\ result.netCashFlow = Q(-306, 25)
  /\ result.percentCosts = I(720)

\* x is finite and |x| <= n / d, for d > 0.
Within(x, n, d) == x.k = "fin" /\ Abs(x.n) * d <= n * x.d

\* The rent field holds the break-even rent of this evaluation, entered to the
\* cent, in Standard mode, and coeff is not zero. The break-even rent does not
\* depend on the rent, so it is the break-even rent of the evaluation before
\* the rent was entered as well.
BreakEvenFedBack ==
  /\ pc = "ready"
  /\ ~section8Mode
  /\ coeff(Inputs(fields, section8Mode, computedRent)) # I(0)
  /\ fields.monthlyRent = toFixed2(result.breakEvenRent)

\* C5 as stated: whenever coeff # 0, feeding the break-even rent back through
\* the rent field makes the net cash flow 0 within 0.01, a negative break-even
\* rent included.
C5_RoundTripAnySign == BreakEvenFedBack => Within(result.netCashFlow, 1, 100)

\* C5: whenever coeff # 0 and the break-even rent is not negative, feeding the
\* break-even rent back through the rent field makes the net cash flow 0 within
\* 0.01.
C5_RoundTripNonNegative ==
  (BreakEvenFedBack /\ AtLeast(result.breakEvenRent, 0, 1)) =>
    Within(result.netCashFlow, 1, 100)

\* The break-even rent was typed into the rent field, it is positive, and the
\* cent rounding leaves a cash flow that is small but not zero.
C5_Witness ==
  /\ BreakEvenFedBack
  /\ edits = 1
  /\ AtLeast(result.breakEvenRent, 1, 1)
  /\ result.netCashFlow # I(0)
  /\ Within(result.netCashFlow, 1, 100)

\* C6: DSCR is NOI / debt service when the debt service is positive, +Infinity
\* when the debt service is 0 and NOI > 0, NaN when the debt service is 0 and
\* NOI <= 0; in the last two cases the DSCR signal is the neutral marker and the
\* evaluation completes with a verdict.
C6_DscrCases ==
  pc = "ready" =>
    /\ AtLeast(result.mortgagePI, 0, 1)
    /\ IsFinite(result.mortgagePI) /\ IsFinite(result.noiMonthly)
    /\ ~(result.mortgagePI = I(0)) =>
         /\ IsFinite(result.dscr)
         /\ Mul(result.dscr, result.mortgagePI) = result.noiMonthly
    /\ (result.mortgagePI = I(0) /\ AtLeast(result.noiMonthly, 0, 1)
          /\ result.noiMonthly # I(0)) => result.dscr = PosInf
    /\ (result.mortgagePI = I(0) /\ ~(AtLeast(result.noiMonthly, 0, 1)
          /\ result.noiMonthly # I(0))) => result.dscr = NaN
    /\ result.mortgagePI = I(0) =>
         /\ result.decision.primarySignals[2].k = "DSCR"
         /\ result.decision.primarySignals[2].v = Dash
         /\ result.decision.isGo \in BOOLEAN

\* No debt service and a positive NOI: DSCR is +Infinity and shown as the marker.
C6_Witness ==
  /\ pc = "ready"
  /\ result.mortgagePI = I(0)
  /\ AtLeast(result.noiMonthly, 1, 1)
  /\ result.dscr = PosInf
  /\ result.decision.primarySignals[2].v = Dash

\* The months of a term, rounded, and the number of periods used.
Months(years) == MathRound(Mul(years, I(12)))
PeriodsUsed(years) == IF AtLeast(Months(years), 1, 1) THEN Months(years) ELSE I(1)

\* C7: monthlyMortgagePayment returns 0 when principal <= 0, whatever the rate
\* and the term; for principal > 0 and rate <= 0 it returns principal / n with
\* n = max(1, round(years * 12)), a finite number, which is principal /
\* round(years * 12) for every term the result computation passes.
C7_NonInterestBranches ==
  pc = "payReturn" =>
    /\ ~AtLeast(payArgs.principal, 0, 1) \/ payArgs.principal = I(0) => payment = I(0)
    /\ (AtLeast(payArgs.principal, 0, 1) /\ payArgs.principal # I(0)
          /\ ~(AtLeast(payArgs.annualRatePct, 0, 1) /\ payArgs.annualRatePct # I(0))) =>
         /\ IsFinite(payment)
         /\ Mul(payment, PeriodsUsed(payArgs.years)) = payArgs.principal
         /\ payArgs.years \in CallSiteYears =>
              /\ AtLeast(Months(payArgs.years), 12, 1)
              /\ Mul(payment, Months(payArgs.years)) = payArgs.principal

\* An interest-free loan over a term of zero years is paid in one period.
C7_Witness ==
  /\ pc = "payReturn"
  /\ payArgs.principal = I(1200)
  /\ payArgs.annualRatePct = I(0)
  /\ payArgs.years = I(0)
  /\ payment = I(1200)

\* The result of evaluating the fields f in mode s8 from scratch.
Evaluation(f, s8) == computeResult(f, s8, computeRent(f, s8))

\* Texts put into the fields a mode does not read.
OtherTexts == {<<>>, <<"9", "9", "9">>}

\* The fields with the rent split into a tenant portion and a HAP, no reserve.
RentAsSubsidy ==
  [fields EXCEPT !.tenantPortionMonthly = fields.monthlyRent,
                 !.hapMonthly = <<"0">>,
                 !.inspectionReserveMonthly = <<"0">>]

\* The fields with the tenant portion plus the HAP as the rent, to the cent.
SubsidyAsRent == [fields EXCEPT !.monthlyRent = toFixed2(computedRent)]

\* C8: (a) a Section 8 evaluation whose tenant portion + HAP equals a Standard
\* evaluation's rent, with no reserve, gives the same metrics and verdict;
\* (b) a Standard result does not depend on the tenant portion, the HAP or the
\* reserve, and a Section 8 result does not depend on the rent field.
C8_ModeOnlyComposesRent ==
  pc = "ready" =>
    /\ ~section8Mode => Evaluation(RentAsSubsidy, TRUE) = result
    /\ (section8Mode /\ ModeReserve = I(0) /\ Amount(toFixed2(computedRent)) = computedRent) =>
         Evaluation(SubsidyAsRent, FALSE) = result
    /\ ~section8Mode =>
         \A t \in OtherTexts :
           Evaluation([fields EXCEPT !.tenantPortionMonthly = t, !.hapMonthly = t,
                                     !.inspectionReserveMonthly = t], FALSE) = result
    /\ section8Mode =>
         \A t \in OtherTexts : Evaluation([fields EXCEPT !.monthlyRent = t], TRUE) = result

\* Section 8 mode with tenant portion 800 and HAP 3200, a rent field holding
\* something else, and the metrics of the Standard scenario with rent 4000.
C8_Witness ==
  /\ pc = "ready"
  /\ section8Mode
  /\ fields.tenantPortionMonthly = <<"8", "0", "0">>
  /\ fields.hapMonthly = <<"3", "2", "0", "0">>
  /\ fields.monthlyRent # <<"4", "0", "0", "0">>
  /\ ModeReserve = I(0)
  /\ result.noiMonthly = I(2420)
  /\ result.netCashFlow = Q(-306, 25)

\* x is a number (not NaN) and x <= n / d in the extended reals, for d > 0.
AtMost(x, n, d) ==
  \/ x.k = "inf" /\ x.n < 0
  \/ x.k = "fin" /\ x.n * d <= n * x.d

\* The money fields that every mode reads, with the names of their inputs.
MoneyInputs ==
  { <<"purchasePrice", "price">>, <<"closingCosts", "close">>, <<"otherIncome", "other">>,
    <<"taxesMonthly", "taxes">>, <<"insuranceMonthly", "ins">>, <<"hoaMonthly", "hoa">>,
    <<"utilitiesMonthly", "utils">> }

PercentInputs ==
  { <<"downPct", "down">>, <<"ratePct", "rate">>, <<"vacancyPct", "vacancy">>,
    <<"repairsPct", "repairs">>, <<"capexPct", "capex">>, <<"mgmtPct", "mgmt">> }

\* Text that holds no number: no digit at all, or digits around a misplaced sign.
Unparseable(text) ==
  \/ \A i \in 1..Len(text) : text[i] \notin Digits
  \/ text = <<"1", "-", "2">>

\* C9: every input the arithmetic uses is coerced and clamped: the down-payment
\* fraction is in [0, 1] ("150" is used as 100%), the rate in [0, 100], the
\* vacancy, repairs and capex fractions in [0, 0.8] ("-10" is used as 0), the
\* management fraction in [0, 0.3], the term an integer >= 1, every money input
\* >= 0 with unparseable or empty text used as 0; and 0 <= loan <= price with
\* loan + down payment = price.
C9_InputsClamped ==
  pc = "ready" =>
    LET v == Inputs(fields, section8Mode, computedRent) IN
    /\ AtLeast(v.down, 0, 1) /\ AtMost(v.down, 1, 1)
    /\ AtLeast(v.rate, 0, 1) /\ AtMost(v.rate, 100, 1)
    /\ \A k \in {"vacancy", "repairs", "capex"} : AtLeast(v[k], 0, 1) /\ AtMost(v[k], 4, 5)
    /\ AtLeast(v.mgmt, 0, 1) /\ AtMost(v.mgmt, 3, 10)
    /\ v.years.k = "fin" /\ v.years.d = 1 /\ v.years.n >= 1
    /\ \A m \in MoneyInputs : IsFinite(v[m[2]]) /\ AtLeast(v[m[2]], 0, 1)
    /\ IsFinite(v.rent) /\ AtLeast(v.rent, 0, 1) /\ v.rent = ModeRent
    /\ IsFinite(v.s8Reserve) /\ AtLeast(v.s8Reserve, 0, 1)
    /\ \A m \in MoneyInputs \cup PercentInputs : Unparseable(fields[m[1]]) => v[m[2]] = I(0)
    /\ fields.downPct = <<"1", "5", "0">> => v.down = I(1)
    /\ fields.vacancyPct = <<"-", "1", "0">> => v.vacancy = I(0)
    /\ result.price = v.price
    /\ AtLeast(result.loan, 0, 1)
    /\ AtLeast(Sub(result.price, result.loan), 0, 1)
    /\ Add(result.loan, result.downPayment) = result.price

\* The down payment typed as 150, the vacancy as -10, closing costs as 1-2 and a
\* rate that is no number: everything is paid down and nothing is borrowed.
C9_Witness ==
  /\ pc = "ready"
  /\ fields.downPct = <<"1", "5", "0">>
  /\ fields.vacancyPct = <<"-", "1", "0">>
  /\ fields.closingCosts = <<"1", "-", "2">>
  /\ fields.ratePct = <<"a", "b", "c">>
  /\ result.price = I(500000)
  /\ result.downPayment = I(500000)
  /\ result.loan = I(0)
  /\ result.cashInvested = I(500000)

\* coeff written out from the inputs.
CoeffFromInputs ==
  LET v == Inputs(fields, section8Mode, computedRent)
  IN Sub(Sub(I(1), v.vacancy), Add(Add(v.repairs, v.capex), v.mgmt))

\* C10: capRate is NaN exactly when the price is 0, cashOnCash is NaN exactly
\* when the cash invested (down payment + closing costs) is 0, breakEvenRent is
\* +Infinity exactly when coeff = 0, and is finite otherwise; the evaluation
\* has a verdict in each case, and a NaN cashOnCash gives no cash-on-cash
\* warning.
C10_ZeroDenominators ==
  pc = "ready" =>
    /\ IF result.price = I(0) THEN result.capRate = NaN ELSE IsFinite(result.capRate)
    /\ result.cashInvested =
         Add(result.downPayment, Inputs(fields, section8Mode, computedRent).close)
    /\ IF result.cashInvested = I(0) THEN result.cashOnCash = NaN
       ELSE IsFinite(result.cashOnCash)
    /\ IF CoeffFromInputs = I(0) THEN result.breakEvenRent = PosInf
       ELSE IsFinite(result.breakEvenRent)
    /\ result.decision.isGo \in BOOLEAN
    /\ result.cashOnCash = NaN =>
         ~HasWarning(result.decision, "Cash-on-cash is under 8%")

\* Nothing paid and cost fractions that use up the whole rent: all three
\* sentinels at once, and still a verdict.
C10_Witness ==
  /\ pc = "ready"
  /\ result.price = I(0)
  /\ result.cashInvested = I(0)
  /\ CoeffFromInputs = I(0)
  /\ result.capRate = NaN
  /\ result.cashOnCash = NaN
  /\ result.breakEvenRent = PosInf
  /\ result.decision.isGo \in BOOLEAN
  /\ ~HasWarning(result.decision, "Cash-on-cash is under 8%")

\* What the entries of a list are about, in list order.
Abouts(list) == [i \in 1..Len(list) |-> list[i].about]

\* C11: reasons holds at most the cash-flow reason followed by the DSCR reason,
\* warnings at most the cash-on-cash warning followed by the break-even
\* warning, no entry is in both lists, and primarySignals is exactly the two
\* entries "Cash flow (monthly)", "DSCR" in that order.
C11_ListsDisjointAndOrdered ==
  pc = "scoreReturn" =>
    /\ Abouts(decision.reasons) \in
         {<<>>, <<"Cash flow is negative">>, <<"DSCR is below 1.20">>,
          <<"Cash flow is negative", "DSCR is below 1.20">>}
    /\ Abouts(decision.warnings) \in
         {<<>>, <<"Cash-on-cash is under 8%">>,
          <<"Break-even rent is above your gross rent input">>,
          <<"Cash-on-cash is under 8%", "Break-even rent is above your gross rent input">>}
    /\ \A i \in 1..Len(decision.reasons) : \A j \in 1..Len(decision.warnings) :
         /\ decision.reasons[i] # decision.warnings[j]
         /\ decision.reasons[i].about # decision.warnings[j].about
    /\ Len(decision.primarySignals) = 2
    /\ decision.primarySignals[1].k = "Cash flow (monthly)"
    /\ decision.primarySignals[2].k = "DSCR"

\* Both reasons and both warnings at once.
C11_Witness ==
  /\ pc = "scoreReturn"
  /\ Len(decision.reasons) = 2
  /\ Len(decision.warnings) = 2
  /\ Len(decision.primarySignals) = 2

\* C12: in the page's evaluation a GO verdict implies a strictly positive net
\* cash flow, and whenever the debt service is positive and the cash-flow
\* reason is present the DSCR reason is present too.
C12_CashFlowImpliedByDscr ==
  pc = "ready" =>
    /\ result.decision.isGo =>
         (AtLeast(result.netCashFlow, 0, 1) /\ result.netCashFlow # I(0))
    /\ (AtLeast(result.mortgagePI, 0, 1) /\ result.mortgagePI # I(0)
          /\ HasReason(result.decision, "Cash flow is negative")) =>
         HasReason(result.decision, "DSCR is below 1.20")

\* A GO verdict with a loan, and so with a positive cash flow.
C12_Witness ==
  /\ pc = "ready"
  /\ result.decision.isGo
  /\ AtLeast(result.mortgagePI, 1, 1)
  /\ AtLeast(result.netCashFlow, 1, 1)
  /\ IsFinite(result.dscr)

BreakEvenAbout == "Break-even rent is above your gross rent input"

\* coeff > 0 in the current evaluation.
CoeffPositive == AtLeast(CoeffFromInputs, 0, 1) /\ CoeffFromInputs # I(0)

\* C13 as stated: with coeff > 0, a negative net cash flow always comes with
\* the break-even warning, other income or not.
C13_WarningOnAnyShortfall ==
  (pc = "ready" /\ CoeffPositive /\ LessThan(result.netCashFlow, 0, 1)) =>
    HasWarning(result.decision, BreakEvenAbout)

\* C13: with coeff > 0 the break-even warning is present exactly when the net
\* cash flow is below -coeff * other income (the break-even rent is above rent
\* + other income); with no other income, exactly when the cash flow is
\* negative.
C13_WarningOnShortfallBeyondOtherIncome ==
  (pc = "ready" /\ CoeffPositive) =>
    LET other == Amount(fields.otherIncome) IN
    /\ HasWarning(result.decision, BreakEvenAbout) <=>
         LtReal(result.netCashFlow, Neg(Mul(CoeffFromInputs, other)))
    /\ other = I(0) =>
         (HasWarning(result.decision, BreakEvenAbout) <=> LessThan(result.netCashFlow, 0, 1))

\* Other income of 900 and a shortfall larger than coeff * 900: the warning is
\* shown.
C13_Witness ==
  /\ pc = "ready"
  /\ CoeffPositive
  /\ Amount(fields.otherIncome) = I(900)
  /\ LessThan(result.netCashFlow, 0, 1)
  /\ HasWarning(result.decision, BreakEvenAbout)

\* C14: after the query-string load and any field edits, mode toggles and
\* resets, the memoised rent and result are those of a fresh computation on
\* the current fields and mode.
C14_NoStaleResult ==
  pc \in {"mount", "ready"} =>
    /\ computedRent = computeRent(fields, section8Mode)
    /\ result = Evaluation(fields, section8Mode)

\* A reserve typed in Section 8 mode has reached the fixed costs.
C14_Witness ==
  /\ pc = "ready"
  /\ edits = 1
  /\ section8Mode
  /\ fields.inspectionReserveMonthly = <<"1", "0", "0">>
  /\ fields.taxesMonthly = <<"5", "2", "0">>
  /\ fields.insuranceMonthly = <<"1", "4", "0">>
  /\ result.fixedCostsNoDebt = I(760)

\* C15: a link built by buildShareUrl and opened in a freshly mounted page
\* gives the page the mode and the eighteen field texts the link was built
\* from, and so the same metrics and verdict.
C15_ShareLinkRoundTrip ==
  (pc = "ready" /\ shared.copied /\ href = shared.url) =>
    /\ section8Mode = shared.section8Mode
    /\ fields = shared.fields
    /\ result = shared.result

\* A link copied in Section 8 mode with a rent text of "a&b=c" has been opened.
C15_Witness ==
  /\ pc = "ready"
  /\ shared.copied
  /\ href = shared.url
  /\ section8Mode
  /\ fields.monthlyRent = <<"a", "&", "b", "=", "c">>

\* The page has just been loaded from its query string.
JustLoaded == pc = "ready" /\ edits = 0 /\ ~shared.copied

\* C16: after the load, a field whose key is in the URL holds the URL's value
\* and a field whose key is absent holds its default; the mode is Section 8
\* for m=s8, Standard for m=std and unchanged for anything else; loading the
\* same parameters again changes nothing.
C16_PartialDecode ==
  JustLoaded =>
    /\ \A q \in QueryParams :
         href = QueryOf(q) =>
           /\ \A name \in FieldNames :
                fields[name] =
                  IF Key(name) \in DOMAIN q THEN q[Key(name)] ELSE DefaultFields[name]
           /\ section8Mode = ("m" \in DOMAIN q /\ q["m"] = ModeS8)
    /\ href = TypedQuery =>
         /\ ~section8Mode
         /\ fields = [DefaultFields EXCEPT !.termYears = <<"1", "5">>, !.monthlyRent = <<>>]
    /\ loadedFields(searchParams(href), fields) = fields
    /\ loadedMode(searchParams(href), section8Mode) = section8Mode

\* A URL with four of the keys, one of them with an empty value.
C16_Witness ==
  /\ JustLoaded
  /\ href = QueryOf([p |-> <<"0">>, rent |-> <<"0">>, tax |-> <<"0">>, ins |-> <<>>])
  /\ fields.insuranceMonthly = <<>>
  /\ fields.purchasePrice = <<"0">>
  /\ fields.downPct = <<"2", "5">>
  /\ ~section8Mode


\* The number of the first k texts written whose offset, once stepped past
\* them, exceeds the page threshold.
Overruns(k) == Cardinality({j \in 1..k : doc.texts[j].y + 7 > 280})

\* C17: during and after the write loop of exportPdf, on a line list of any
\* length: the texts written are the first lines of the list, in list order
\* with none skipped, and all of them once the document is saved; every text
\* is written at an offset y = 14 + 7k with 14 <= y <= 280; a text is on a
\* new page, at offset 14, exactly when the offset after writing the text
\* before it exceeded 280, and follows that text by 7 on the same page
\* otherwise; the document has one page more than the number of such overruns.
C17_Pagination ==
  pc \in {"pdfLoop", "pdfSaved"} =>
    /\ Len(doc.texts) = cursor - 1
    /\ cursor <= Len(lines) + 1
    /\ pc = "pdfSaved" => Len(doc.texts) = Len(lines)
    /\ \A k \in 1..Len(doc.texts) :
         LET t == doc.texts[k] IN
           /\ t.s = lines[k]
           /\ t.y >= 14
           /\ t.y <= 280
           /\ (t.y - 14) % 7 = 0
           /\ t.page = 1 + Overruns(k - 1)
           /\ t.y = IF k = 1 \/ doc.texts[k - 1].y + 7 > 280
                    THEN 14 ELSE doc.texts[k - 1].y + 7
    /\ doc.pages = 1 + Overruns(Len(doc.texts))
    /\ pdfY = IF Len(doc.texts) = 0 \/ doc.texts[Len(doc.texts)].y + 7 > 280
              THEN 14 ELSE doc.texts[Len(doc.texts)].y + 7

\* A saved document of three pages: line 39 is at the foot of the first page,
\* at offset 280, line 40 opens the second page, line 78 is at the foot of the
\* second and line 79 opens the third.
C17_Witness ==
  /\ pc = "pdfSaved"
  /\ Len(lines) >= 79
  /\ Len(doc.texts) = Len(lines)
  /\ doc.pages = 3
  /\ doc.texts[39].y = 280 /\ doc.texts[39].page = 1
  /\ doc.texts[40].y = 14 /\ doc.texts[40].page = 2
  /\ doc.texts[78].y = 280 /\ doc.texts[78].page = 2
  /\ doc.texts[79].y = 14 /\ doc.texts[79].page = 3

====
